---- MODULE Spec2Model ----
(***************************************************************************)
(* State-machine model of the AtoZ storefront (src/main.py): the session   *)
(* cart, the cart view, checkout into the orders table, the product        *)
(* catalog and the admin operations on products and orders.                *)
(*                                                                         *)
(* The database tables are functions from row id to row; a Flask session   *)
(* is a record holding the optional keys 'user_id' and 'cart'.  Every      *)
(* action is one HTTP request handled from routing to teardown; `req' and  *)
(* `resp' record the request just handled and the response it produced.    *)
(***************************************************************************)
EXTENDS Integers, Sequences, FiniteSets, TLC

\* ------------------------------------------------------------------ bounds
MaxCart == 3
MaxProducts == 2
MaxOrders == 1
MaxLedger == 2
MaxBasket == 1
MaxRaceCart == 2
MaxOwned == 3
MaxClearCart == 2

\* ------------------------------------------------------- values and inputs
\* SQL NULL / Python None of a numeric column: the empty tuple; a value v is <<v>>.
NULL == << >>
\* SQL NULL of a text column (users.mobile, users.province before any update).
NULLTEXT == "<NULL>"
\* session.get('user_id') of a session with no 'user_id' key (row ids start at 1).
NoUser == 0

Sessions == {"s1", "s2"}

AdminUsername == "admin@gmail.com"
AdminPassword == "admin123"

\* werkzeug's salted hash, kept as a tagged value: check_password_hash(h, p)
\* holds exactly when h was generated from p.
generate_password_hash(p) == "hash:" \o p
check_password_hash(h, p) == h = generate_password_hash(p)

\* The admin "add product" form submissions the model draws from: price and
\* discount_price arrive as text; the optional discount_price is sent empty,
\* as a price, or as "0".
ProductForms ==
    { [name |-> "A", price |-> "1000", discount_price |-> ""],
      [name |-> "B", price |-> "500", discount_price |-> "400"],
      [name |-> "C", price |-> "700", discount_price |-> "0"] }

\* float(text) / SQLite REAL affinity on the numeric texts the forms carry
\* (the REAL amounts of the model are whole numbers, so sums are exact).
float(t) ==
    CASE t = "0" -> 0
      [] t = "100" -> 100
      [] t = "250" -> 250
      [] t = "400" -> 400
      [] t = "500" -> 500
      [] t = "700" -> 700
      [] t = "1000" -> 1000

\* The checkout form submissions the model draws from: the complete form and
\* the four forms that each leave one required field out.
FullForm ==
    [full_name |-> "Sita", mobile |-> "9800000000",
     address |-> "Ktm", province |-> "Bagmati"]
ShippingFields == {"full_name", "mobile", "address", "province"}
Without(form, k) == [x \in (DOMAIN form) \ {k} |-> form[x]]
CheckoutForms == {FullForm} \cup {Without(FullForm, k) : k \in ShippingFields}
NoForm == [x \in {} |-> ""]

\* Where a database failure is injected into a checkout submission.
FailPoints == {"none", "insert", "update", "commit"}

\* ------------------------------------------------------------------- state
VARIABLES
    users,        \* table users: id -> row
    products,     \* table products: id -> row
    product_seq,  \* AUTOINCREMENT high-water mark of products
    orders,       \* table orders: id -> row
    order_seq,    \* AUTOINCREMENT high-water mark of orders
    session,      \* per browser session: user_id, has_cart ('cart' key set), cart
    local,        \* per session: the locals of a checkout between its SELECT
                  \* and its first write
    req,          \* the request just handled
    resp          \* the response it produced

vars == <<users, products, product_seq, orders, order_seq, session, local,
          req, resp>>
db == <<users, products, product_seq, orders, order_seq>>

Range(s) == {s[i] : i \in 1..Len(s)}

\* ---------------------------------------------------------------- requests
Request(op, sid, method, arg, form, fail) ==
    [op |-> op, sid |-> sid, method |-> method, arg |-> arg, form |-> form,
     fail |-> fail]

Redirect(location) ==
    [status |-> 302, location |-> location, items |-> << >>, total |-> 0,
     count |-> 0]
Render(template, items, total) ==
    [status |-> 200, location |-> template, items |-> items, total |-> total,
     count |-> 0]
Abort(status) ==
    [status |-> status, location |-> "", items |-> << >>, total |-> 0,
     count |-> 0]

\* No checkout of the session is between its SELECT and its writes.
NoLocals ==
    [pc |-> "idle", method |-> "GET", form |-> NoForm, ids |-> << >>,
     pmap |-> << >>, total |-> 0, names |-> << >>]

\* ------------------------------------------------------------- the session
\* session.get('cart', [])
SessionCart(s) == IF session[s].has_cart THEN session[s].cart ELSE << >>

\* login_required:  'user_id' not in session
LoggedInAlways(s) == TRUE
LoggedIn(s) == session[s].user_id # NoUser

\* admin_required's test on the row of session['user_id']
IsAdmin(s) ==
    /\ LoggedIn(s)
    /\ session[s].user_id \in DOMAIN users
    /\ users[session[s].user_id].is_admin = 1

\* ------------------------------------------------------------------ pricing
\* Python truthiness of a nullable number: None and 0 are falsy.
Truthy(v) == v # NULL /\ v[1] # 0

\* (p['discount_price'] or p['price'])
EffectivePriceNotNone(p) ==
    IF p.discount_price # NULL THEN p.discount_price[1] ELSE p.price
EffectivePriceSwapped(p) ==
    IF p.price # 0 THEN p.price
    ELSE IF p.discount_price # NULL THEN p.discount_price[1] ELSE 0
EffectivePrice(p) ==
    IF Truthy(p.discount_price) THEN p.discount_price[1] ELSE p.price

\* SELECT ... FROM products WHERE id IN (ids), as pmap = {p['id']: p}
ProductMap(catalog, ids) ==
    [i \in (DOMAIN catalog) \cap Range(ids) |-> catalog[i]]

\* add_product's  disc = float(disc) if disc else None  on request.form.get
DiscountOf(form) ==
    IF "discount_price" \in DOMAIN form /\ form.discount_price # ""
    THEN <<float(form.discount_price)>>
    ELSE NULL

ProductRow(id, form) ==
    [id |-> id, name |-> form.name, price |-> float(form.price),
     discount_price |-> DiscountOf(form)]

\* ---------------------------------------------------------------- the cart
\* if 0 <= index < len(cart)
InRangeUnsigned(cart, index) == index < Len(cart)
InRange(cart, index) == 0 <= index /\ index < Len(cart)

\* list.remove(cart[index]): drops the first entry equal to the one at index
remove_value(cart, index) ==
    LET k == IF index < 0 THEN index + Len(cart) ELSE index
    IN  IF 0 <= k /\ k < Len(cart)
        THEN LET f == CHOOSE j \in 1..Len(cart) :
                         /\ cart[j] = cart[k + 1]
                         /\ \A h \in 1..(j - 1) : cart[h] # cart[k + 1]
             IN  [i \in 1..(Len(cart) - 1) |->
                    IF i < f THEN cart[i] ELSE cart[i + 1]]
        ELSE cart
\* cart.pop(index): Python counts a negative index from the end
pop(cart, index) ==
    LET k == IF index < 0 THEN index + Len(cart) ELSE index
    IN  IF 0 <= k /\ k < Len(cart)
        THEN [i \in 1..(Len(cart) - 1) |-> IF i <= k THEN cart[i] ELSE cart[i + 1]]
        ELSE cart

\* the loop of cart():  for i in ids: if i in pmap: items.append; total +=
RECURSIVE cart_loop(_, _, _, _)
cart_loop(ids, pmap, items, total) ==
    IF ids = << >> THEN [items |-> items, total |-> total]
    ELSE LET i == Head(ids)
         IN  IF i \in DOMAIN pmap
             THEN cart_loop(Tail(ids), pmap, Append(items, pmap[i]),
                            total + EffectivePrice(pmap[i]))
             ELSE cart_loop(Tail(ids), pmap, items, total)

\* The same loop run once per fetched row instead of once per cart entry.
RECURSIVE rows_loop(_, _, _, _)
rows_loop(todo, pmap, items, total) ==
    IF todo = {} THEN [items |-> items, total |-> total]
    ELSE LET i == CHOOSE j \in todo : \A k \in todo : j <= k
         IN  rows_loop(todo \ {i}, pmap, Append(items, pmap[i]),
                       total + EffectivePrice(pmap[i]))
cart_items_per_row(ids, catalog) ==
    rows_loop(DOMAIN ProductMap(catalog, ids), ProductMap(catalog, ids), << >>, 0)

\* The same loop putting each item in front of the list.
RECURSIVE front_loop(_, _, _, _)
front_loop(ids, pmap, items, total) ==
    IF ids = << >> THEN [items |-> items, total |-> total]
    ELSE LET i == Head(ids)
         IN  IF i \in DOMAIN pmap
             THEN front_loop(Tail(ids), pmap, <<pmap[i]>> \o items,
                             total + EffectivePrice(pmap[i]))
             ELSE front_loop(Tail(ids), pmap, items, total)
cart_items_front(ids, catalog) ==
    front_loop(ids, ProductMap(catalog, ids), << >>, 0)

\* cart(): items and total of the cart view
cart_items(ids, catalog) ==
    IF ids # << >>
    THEN cart_loop(ids, ProductMap(catalog, ids), << >>, 0)
    ELSE [items |-> << >>, total |-> 0]

\* cart.append(id)
append_new(cart, id) == IF id \in Range(cart) THEN cart ELSE Append(cart, id)
append(cart, id) == Append(cart, id)

\* POST /add_to_cart/<int:id>
add_to_cart(s, id) ==
    /\ session' = [session EXCEPT ![s].has_cart = TRUE,
                                  ![s].cart = append(SessionCart(s), id)]
    /\ req' = Request("add_to_cart", s, "POST", id, NoForm, "none")
    /\ resp' = Redirect("referrer")
    /\ UNCHANGED db
    /\ UNCHANGED local

\* GET /remove_from_cart/<int:index>
remove_from_cart(s, index) ==
    /\ session' =
         IF InRange(SessionCart(s), index)
         THEN [session EXCEPT ![s].has_cart = TRUE,
                              ![s].cart = pop(SessionCart(s), index)]
         ELSE session
    /\ req' = Request("remove_from_cart", s, "GET", index, NoForm, "none")
    /\ resp' = Redirect("/cart")
    /\ UNCHANGED db
    /\ UNCHANGED local

\* CART_HTML: the k-th line item of {% for item in cart_items %} carries the
\* link /remove_from_cart/{{ loop.index0 }}
loop_index0(k) == k - 1

\* GET /cart
cart(s) ==
    /\ LET v == cart_items(SessionCart(s), products)
       IN  resp' = Render("cart", v.items, v.total)
    /\ req' = Request("cart", s, "GET", 0, NoForm, "none")
    /\ UNCHANGED <<db, session>>
    /\ UNCHANGED local

\* --------------------------------------------------------------- accounts
\* POST /register
register(s, username, password, full_name) ==
    /\ req' = Request("register", s, "POST", 0, NoForm, "none")
    /\ IF \E u \in DOMAIN users : users[u].username = username
       THEN \* UNIQUE(username) fails the INSERT; the handler catches it
            /\ resp' = Render("register", << >>, 0)
            /\ UNCHANGED users
       ELSE /\ users' = users @@
                 (Cardinality(DOMAIN users) + 1 :>
                    [username |-> username,
                     password |-> generate_password_hash(password),
                     full_name |-> full_name, mobile |-> NULLTEXT,
                     province |-> NULLTEXT, is_admin |-> 0])
            /\ resp' = Redirect("/login")
    /\ UNCHANGED <<products, product_seq, orders, order_seq, session>>
    /\ UNCHANGED local

\* session['user_id'] = user['id']
session_renew(sess, s, u) ==
    [sess EXCEPT ![s] = [user_id |-> u, has_cart |-> FALSE, cart |-> << >>]]
set_user_id(sess, s, u) == [sess EXCEPT ![s].user_id = u]

\* POST /login
login(s, username, password) ==
    /\ req' = Request("login", s, "POST", 0, NoForm, "none")
    /\ IF \E u \in DOMAIN users :
             /\ users[u].username = username
             /\ check_password_hash(users[u].password, password)
       THEN LET u == CHOOSE u \in DOMAIN users : users[u].username = username
            IN  /\ session' = set_user_id(session, s, u)
                /\ resp' = Redirect("/")
       ELSE /\ resp' = Render("login", << >>, 0)
            /\ UNCHANGED session
    /\ UNCHANGED db
    /\ UNCHANGED local

\* session.pop('user_id', None)
session_clear(sess, s) ==
    [sess EXCEPT ![s] = [user_id |-> NoUser, has_cart |-> FALSE, cart |-> << >>]]
pop_user_id(sess, s) == [sess EXCEPT ![s].user_id = NoUser]

\* GET /logout
logout(s) ==
    /\ session' = pop_user_id(session, s)
    /\ req' = Request("logout", s, "GET", 0, NoForm, "none")
    /\ resp' = Redirect("/")
    /\ UNCHANGED db
    /\ UNCHANGED local

\* ------------------------------------------------------------ admin routes
\* admin_required: the response that turns the request away, or none
AdminGateLoginOnly(s) ==
    IF ~LoggedIn(s) THEN Redirect("/login") ELSE Abort(0)
AdminGate(s) ==
    IF ~LoggedIn(s) THEN Redirect("/login")
    ELSE IF ~IsAdmin(s) THEN Redirect("/")
    ELSE Abort(0)

\* POST /admin/product/add
add_product(s, form) ==
    /\ req' = Request("add_product", s, "POST", 0, form, "none")
    /\ IF AdminGate(s) # Abort(0)
       THEN /\ resp' = AdminGate(s)
            /\ UNCHANGED <<products, product_seq>>
       ELSE /\ products' = products @@
                 (product_seq + 1 :> ProductRow(product_seq + 1, form))
            /\ product_seq' = product_seq + 1
            /\ resp' = Redirect("/admin")
    /\ UNCHANGED <<users, orders, order_seq, session>>
    /\ UNCHANGED local

\* DELETE FROM products WHERE id=?  /  DELETE FROM orders WHERE id=?
delete_row_unless_in_cart(tbl, id) ==
    IF \E s \in Sessions : id \in Range(SessionCart(s))
    THEN tbl
    ELSE [i \in (DOMAIN tbl) \ {id} |-> tbl[i]]
delete_row_and_older(tbl, id) ==
    [i \in {j \in DOMAIN tbl : j > id} |-> tbl[i]]
delete_row(tbl, id) == [i \in (DOMAIN tbl) \ {id} |-> tbl[i]]

\* GET /admin/product/delete/<int:id>
delete_product(s, id) ==
    /\ req' = Request("delete_product", s, "GET", id, NoForm, "none")
    /\ IF AdminGate(s) # Abort(0)
       THEN /\ resp' = AdminGate(s)
            /\ UNCHANGED products
       ELSE /\ products' = delete_row(products, id)
            /\ resp' = Redirect("/admin")
    /\ UNCHANGED <<users, product_seq, orders, order_seq, session>>
    /\ UNCHANGED local

\* ---------------------------------------------------------------- checkout
\* the loop of checkout():  for i in ids: if i in pmap: total +=; names.append
RECURSIVE checkout_loop(_, _, _, _)
checkout_loop(ids, pmap, total, names) ==
    IF ids = << >> THEN [total |-> total, names |-> names]
    ELSE LET i == Head(ids)
         IN  IF i \in DOMAIN pmap
             THEN checkout_loop(Tail(ids), pmap, total + EffectivePrice(pmap[i]),
                                Append(names, pmap[i].name))
             ELSE checkout_loop(Tail(ids), pmap, total, names)

\* The same accumulation run once per fetched row instead of once per cart entry.
RECURSIVE checkout_rows(_, _, _, _)
checkout_rows(todo, pmap, total, names) ==
    IF todo = {} THEN [total |-> total, names |-> names]
    ELSE LET i == CHOOSE j \in todo : \A k \in todo : j <= k
         IN  checkout_rows(todo \ {i}, pmap, total + EffectivePrice(pmap[i]),
                           Append(names, pmap[i].name))
checkout_totals_per_row(ids, catalog) ==
    checkout_rows(DOMAIN ProductMap(catalog, ids), ProductMap(catalog, ids), 0, << >>)

\* checkout(): total and names computed from the cart before the method test
checkout_totals(ids, catalog) ==
    checkout_loop(ids, ProductMap(catalog, ids), 0, << >>)

\* ", ".join(names)
RECURSIVE join(_, _)
join(sep, names) ==
    IF names = << >> THEN ""
    ELSE IF Len(names) = 1 THEN names[1]
    ELSE names[1] \o sep \o join(sep, Tail(names))

\* if not ids: return redirect('/')
NoIdsNever(ids) == FALSE
NoIdsResolved(ids) == Range(ids) \cap DOMAIN products = {}
NoIds(ids) == ids = << >>

\* request.form[k] raises BadRequestKeyError (400) for a field not submitted;
\* the four reads come before the first statement that writes.
MissingFieldsIgnored(form) == {}
MissingOrEmptyFields(form) ==
    {k \in ShippingFields : k \notin DOMAIN form \/ form[k] = ""}
MissingFields(form) == ShippingFields \ DOMAIN form

Field(form, k) == IF k \in DOMAIN form THEN form[k] ELSE NULLTEXT

\* the row INSERT INTO orders stores; status takes the column default
OrderRowNoDefault(id, uid, form, total, names) ==
    [id |-> id, user_id |-> uid,
     full_name |-> Field(form, "full_name"),
     mobile |-> Field(form, "mobile"),
     address |-> Field(form, "address") \o ", " \o Field(form, "province"),
     total_amount |-> total,
     status |-> NULLTEXT,
     items_summary |-> join(", ", names)]
OrderRow(id, uid, form, total, names) ==
    [id |-> id, user_id |-> uid,
     full_name |-> Field(form, "full_name"),
     mobile |-> Field(form, "mobile"),
     address |-> Field(form, "address") \o ", " \o Field(form, "province"),
     total_amount |-> total,
     status |-> "Pending",
     items_summary |-> join(", ", names)]

\* The statements of a checkout submission whose effect outlasts the request,
\* given the statement at which the database fails.  INSERT and UPDATE run in
\* the transaction the connection opens implicitly; db.commit() makes both
\* durable at once; an exception skips the rest of the handler, and
\* close_connection() closes the connection without a commit, which rolls the
\* open transaction back.  session.pop('cart') comes after the commit.
StatementsKeptAutocommit(fail) ==
    CASE fail = "none" -> {"insert", "update", "pop"}
      [] fail = "insert" -> {}
      [] fail = "update" -> {"insert"}
      [] fail = "commit" -> {"insert", "update"}
StatementsKeptNoPop(fail) ==
    IF fail = "none" THEN {"insert", "update"} ELSE {}
StatementsKept(fail) ==
    IF fail = "none" THEN {"insert", "update", "pop"} ELSE {}

\* session.pop('cart', None)
pop_cart_kept(sess, s) == sess
pop_cart_everywhere(sess, s) ==
    [x \in DOMAIN sess |-> [sess[x] EXCEPT !.has_cart = FALSE, !.cart = << >>]]
pop_cart(sess, s) == [sess EXCEPT ![s].has_cart = FALSE, ![s].cart = << >>]

\* UPDATE users SET full_name=?, mobile=?, province=? WHERE id=?
update_profile_everyone(usr, uid, form) ==
    [u \in DOMAIN usr |->
       [usr[u] EXCEPT !.full_name = Field(form, "full_name"),
                      !.mobile = Field(form, "mobile"),
                      !.province = Field(form, "province")]]
update_profile(usr, uid, form) ==
    [usr EXCEPT ![uid].full_name = Field(form, "full_name"),
                ![uid].mobile = Field(form, "mobile"),
                ![uid].province = Field(form, "province")]

\* GET/POST /checkout
checkout(s, method, form, fail) ==
    /\ req' = Request("checkout", s, method, 0, form, fail)
    /\ LET ids == SessionCart(s)
           uid == session[s].user_id
           t == checkout_totals(ids, products)
           kept == StatementsKept(fail)
       IN  IF ~LoggedIn(s)
           THEN /\ resp' = Redirect("/login")
                /\ UNCHANGED <<users, orders, order_seq, session>>
           ELSE IF NoIds(ids)
           THEN /\ resp' = Redirect("/")
                /\ UNCHANGED <<users, orders, order_seq, session>>
           ELSE IF method = "GET"
           THEN /\ resp' = Render("checkout", << >>, t.total)
                /\ UNCHANGED <<users, orders, order_seq, session>>
           ELSE IF MissingFields(form) # {}
           THEN /\ resp' = Abort(400)
                /\ UNCHANGED <<users, orders, order_seq, session>>
           ELSE /\ IF "insert" \in kept
                   THEN /\ orders' = orders @@
                             (order_seq + 1 :>
                                OrderRow(order_seq + 1, uid, form, t.total, t.names))
                        /\ order_seq' = order_seq + 1
                   ELSE UNCHANGED <<orders, order_seq>>
                /\ IF "update" \in kept
                   THEN users' = update_profile(users, uid, form)
                   ELSE UNCHANGED users
                /\ IF "pop" \in kept
                   THEN session' = pop_cart(session, s)
                   ELSE UNCHANGED session
                /\ resp' = IF fail = "none" THEN Redirect("/profile") ELSE Abort(500)
    /\ UNCHANGED <<products, product_seq>>
    /\ UNCHANGED local

\* The checkout submissions the model draws: any form with a healthy database,
\* and the complete form with a failure at each statement that writes.
CheckoutSubmissions ==
    {<<"GET", NoForm, "none">>}
      \cup {<<"POST", f, "none">> : f \in CheckoutForms}
      \cup {<<"POST", FullForm, x>> : x \in FailPoints \ {"none"}}

\* -------------------------------------------------- checkout, step by step
\* The same handler as two steps, for requests that overlap in time.  The
\* first step runs down to the end of the loop: it reads the cart from the
\* session and the rows of its products with the one SELECT, and leaves the
\* request's ids, total and names in the handler's locals.
checkout_fetch(s, method, form) ==
    /\ local[s].pc = "idle"
    /\ req' = Request("checkout_fetch", s, method, 0, form, "none")
    /\ LET ids == SessionCart(s)
           t == checkout_totals(ids, products)
       IN  IF ~LoggedIn(s)
           THEN /\ resp' = Redirect("/login")
                /\ UNCHANGED local
           ELSE IF NoIds(ids)
           THEN /\ resp' = Redirect("/")
                /\ UNCHANGED local
           ELSE /\ resp' = Abort(0)
                /\ local' = [local EXCEPT ![s] =
                               [pc |-> "fetched", method |-> method,
                                form |-> form, ids |-> ids,
                                pmap |-> ProductMap(products, ids),
                                total |-> t.total, names |-> t.names]]
    /\ UNCHANGED <<db, session>>

\* What the INSERT stores for the request: the total and names of its locals.
written_requeried(l, catalog) ==
    [total |-> l.total, names |-> checkout_totals(l.ids, catalog).names]
written(l, catalog) == [total |-> l.total, names |-> l.names]

\* The second step: the method test and everything after it.
checkout_finish(s) ==
    /\ local[s].pc = "fetched"
    /\ req' = Request("checkout_finish", s, local[s].method, 0, local[s].form,
                      "none")
    /\ LET l == local[s]
           uid == session[s].user_id
           w == written(l, products)
       IN  IF l.method = "GET"
           THEN /\ resp' = Render("checkout", << >>, l.total)
                /\ UNCHANGED <<users, orders, order_seq, session>>
           ELSE IF MissingFields(l.form) # {}
           THEN /\ resp' = Abort(400)
                /\ UNCHANGED <<users, orders, order_seq, session>>
           ELSE /\ orders' = orders @@
                      (order_seq + 1 :>
                         OrderRow(order_seq + 1, uid, l.form, w.total, w.names))
                /\ order_seq' = order_seq + 1
                /\ users' = update_profile(users, uid, l.form)
                /\ session' = pop_cart(session, s)
                /\ resp' = Redirect("/profile")
    /\ local' = [local EXCEPT ![s] = NoLocals]
    /\ UNCHANGED <<products, product_seq>>

\* ----------------------------------------------------------------- profile
\* The forms the profile page posts: mobile and province, with or without a
\* new password.
ProfileForms ==
    {[mobile |-> "9822222222", province |-> "Gandaki"],
     [mobile |-> "9822222222", province |-> "Gandaki", password |-> "new"]}

\* request.form.get(k): None for a field not submitted
FormGet(form, k) == IF k \in DOMAIN form THEN form[k] ELSE NULLTEXT

\* The ids of a set, largest first.
RECURSIVE Descending(_)
Descending(S) ==
    IF S = {} THEN << >>
    ELSE LET m == CHOOSE i \in S : \A j \in S : j <= i
         IN  <<m>> \o Descending(S \ {m})

\* SELECT * FROM orders WHERE user_id=? ORDER BY id DESC
orders_everyone(tbl, uid) ==
    LET ids == Descending(DOMAIN tbl)
    IN  [k \in 1..Len(ids) |-> tbl[ids[k]]]
orders_of(tbl, uid) ==
    LET ids == Descending({i \in DOMAIN tbl : tbl[i].user_id = uid})
    IN  [k \in 1..Len(ids) |-> tbl[ids[k]]]

\* GET/POST /profile
profile(s, method, form) ==
    /\ req' = Request("profile", s, method, 0, form, "none")
    /\ LET uid == session[s].user_id
           pwd == FormGet(form, "password")
       IN  IF ~LoggedIn(s)
           THEN /\ resp' = Redirect("/login")
                /\ UNCHANGED users
           ELSE IF method = "POST"
           THEN /\ users' =
                     IF pwd # NULLTEXT /\ pwd # ""
                     THEN [users EXCEPT
                              ![uid].mobile = FormGet(form, "mobile"),
                              ![uid].province = FormGet(form, "province"),
                              ![uid].password = generate_password_hash(pwd)]
                     ELSE [users EXCEPT
                              ![uid].mobile = FormGet(form, "mobile"),
                              ![uid].province = FormGet(form, "province")]
                /\ resp' = Redirect("/profile")
           ELSE /\ resp' = Render("profile", orders_of(orders, uid), 0)
                /\ UNCHANGED users
    /\ UNCHANGED <<products, product_seq, orders, order_seq, session, local>>

\* ------------------------------------------------------------ admin, orders
\* SELECT COUNT(*) FROM orders
COUNT_highest_id(tbl) ==
    IF DOMAIN tbl = {} THEN 0 ELSE CHOOSE i \in DOMAIN tbl : \A j \in DOMAIN tbl : j <= i
COUNT(tbl) == Cardinality(DOMAIN tbl)

\* SELECT SUM(total_amount) FROM orders: NULL over no rows
RECURSIVE sum_amounts(_, _)
sum_amounts(tbl, todo) ==
    IF todo = {} THEN 0
    ELSE LET i == CHOOSE j \in todo : TRUE
         IN  tbl[i].total_amount + sum_amounts(tbl, todo \ {i})
SUM(tbl) == IF DOMAIN tbl = {} THEN NULL ELSE <<sum_amounts(tbl, DOMAIN tbl)>>

\* stats["earnings"]:  total_earnings if total_earnings else 0
earnings(total_earnings) ==
    IF Truthy(total_earnings) THEN total_earnings[1] ELSE 0

\* SELECT * FROM orders ORDER BY id DESC
orders_all(tbl) ==
    LET ids == Descending(DOMAIN tbl)
    IN  [k \in 1..Len(ids) |-> tbl[ids[k]]]

\* render_template('admin', orders=..., stats=stats)
RenderAdmin(tbl) ==
    [status |-> 200, location |-> "admin", items |-> orders_all(tbl),
     total |-> earnings(SUM(tbl)), count |-> COUNT(tbl)]

\* GET /admin
admin(s) ==
    /\ req' = Request("admin", s, "GET", 0, NoForm, "none")
    /\ resp' = IF AdminGate(s) # Abort(0) THEN AdminGate(s) ELSE RenderAdmin(orders)
    /\ UNCHANGED <<db, session, local>>

\* UPDATE orders SET status=? WHERE id=?
set_status_every_order(tbl, id, status) ==
    [i \in DOMAIN tbl |-> [tbl[i] EXCEPT !.status = status]]
set_status(tbl, id, status) ==
    IF id \in DOMAIN tbl THEN [tbl EXCEPT ![id].status = status] ELSE tbl

\* GET /admin/order/status/<int:id>/<status>
order_status(s, id, status) ==
    /\ req' = Request("order_status", s, "GET", id, [status |-> status], "none")
    /\ IF AdminGate(s) # Abort(0)
       THEN /\ resp' = AdminGate(s)
            /\ UNCHANGED orders
       ELSE /\ orders' = set_status(orders, id, status)
            /\ resp' = Redirect("/admin")
    /\ UNCHANGED <<users, products, product_seq, order_seq, session, local>>

\* GET /admin/order/delete/<int:id>
delete_order(s, id) ==
    /\ req' = Request("delete_order", s, "GET", id, NoForm, "none")
    /\ IF AdminGate(s) # Abort(0)
       THEN /\ resp' = AdminGate(s)
            /\ UNCHANGED orders
       ELSE /\ orders' = delete_row(orders, id)
            /\ resp' = Redirect("/admin")
    /\ UNCHANGED <<users, products, product_seq, order_seq, session, local>>

\* ------------------------------------------------------------ specification
\* init_db(): the tables are empty but for the default admin; no session
\* holds a key yet.
Init ==
    /\ users = (1 :> [username |-> AdminUsername,
                      password |-> generate_password_hash(AdminPassword),
                      full_name |-> "Super Admin", mobile |-> NULLTEXT,
                      province |-> NULLTEXT, is_admin |-> 1])
    /\ products = << >>
    /\ product_seq = 0
    /\ orders = << >>
    /\ order_seq = 0
    /\ session = [s \in Sessions |->
                    [user_id |-> NoUser, has_cart |-> FALSE, cart |-> << >>]]
    /\ local = [s \in Sessions |-> NoLocals]
    /\ req = Request("init", "s1", "GET", 0, NoForm, "none")
    /\ resp = Abort(0)

\* The whole storefront from the freshly initialised database: the customer
\* uses session s1, the admin session s2.
Credentials == {<<"s1", "ram", "pw">>, <<"s2", AdminUsername, AdminPassword>>}

Next ==
    \/ \E id \in 1..MaxProducts :
          Len(SessionCart("s1")) < MaxCart /\ add_to_cart("s1", id)
    \/ \E index \in (-1)..MaxCart : remove_from_cart("s1", index)
    \/ cart("s1")
    \/ \E s \in Sessions : logout(s)
    \/ register("s1", "ram", "pw", "Ram")
    \/ \E c \in Credentials : login(c[1], c[2], c[3])
    \/ \E c \in CheckoutSubmissions :
          order_seq < MaxOrders /\ checkout("s1", c[1], c[2], c[3])
    \/ \E form \in ProductForms :
          product_seq < MaxProducts /\ add_product("s2", form)
    \/ \E id \in 1..MaxProducts : delete_product("s2", id)

Spec == Init /\ [][Next]_vars

\* ------------------------------------------------- states drawn from bounds
\* The catalogs the admin can have built: ids 1..product_seq were handed out,
\* each id is either deleted or holds the row one of the forms produced.
CatalogDrawn ==
    /\ product_seq \in 0..MaxProducts
    /\ \E D \in SUBSET (1..product_seq) :
          \E f \in [D -> ProductForms] :
             products = [i \in D |-> ProductRow(i, f[i])]

\* The carts a session can hold: no 'cart' key, or any list of product ids.
CartsDrawn ==
    UNION {[1..n -> 1..MaxProducts] : n \in 0..MaxCart}

\* An order ram placed earlier, from a cart none of whose ids named a product.
PriorOrder ==
    [id |-> 1, user_id |-> 2, full_name |-> "Ram", mobile |-> "9811111111",
     address |-> "Pokhara, Koshi", total_amount |-> 0, status |-> "Pending",
     items_summary |-> ""]

\* A storefront in use: ram has registered and set a profile, the admin is
\* logged in in s2, the catalog and the cart of s1 are drawn, s1 is logged in
\* as ram or not at all, and the orders table is empty or holds the earlier
\* order (order_seq = 1 with no order: the admin deleted it).
InitDrawn ==
    /\ users = (1 :> [username |-> AdminUsername,
                      password |-> generate_password_hash(AdminPassword),
                      full_name |-> "Super Admin", mobile |-> NULLTEXT,
                      province |-> NULLTEXT, is_admin |-> 1])
               @@ (2 :> [username |-> "ram",
                         password |-> generate_password_hash("pw"),
                         full_name |-> "Ram", mobile |-> "9811111111",
                         province |-> "Koshi", is_admin |-> 0])
    /\ CatalogDrawn
    /\ order_seq \in {0, 1}
    /\ orders \in {<< >>} \cup (IF order_seq = 1 THEN {1 :> PriorOrder} ELSE {})
    /\ \E u \in {NoUser, 2}, k \in BOOLEAN, c \in CartsDrawn :
          /\ k \/ c = << >>
          /\ session = [s \in Sessions |->
                          IF s = "s1"
                          THEN [user_id |-> u, has_cart |-> k, cart |-> c]
                          ELSE [user_id |-> 1, has_cart |-> FALSE, cart |-> << >>]]
    /\ local = [s \in Sessions |-> NoLocals]
    /\ req = Request("init", "s1", "GET", 0, NoForm, "none")
    /\ resp = Abort(0)

\* Checkout of the drawn carts against the drawn catalogs.
NextCheckout ==
    \E c \in CheckoutSubmissions : checkout("s1", c[1], c[2], c[3])

SpecCheckout == InitDrawn /\ [][NextCheckout]_vars

\* The cart, its view and the checkout page against a catalog the admin keeps
\* editing, from the freshly initialised database.
NextCart ==
    \/ \E id \in 1..MaxProducts :
          Len(SessionCart("s1")) < MaxCart /\ add_to_cart("s1", id)
    \/ \E index \in (-1)..MaxCart : remove_from_cart("s1", index)
    \/ cart("s1")
    \/ checkout("s1", "GET", NoForm, "none")
    \/ register("s1", "ram", "pw", "Ram")
    \/ \E c \in Credentials : login(c[1], c[2], c[3])
    \/ \E form \in ProductForms :
          product_seq < MaxProducts /\ add_product("s2", form)
    \/ \E id \in 1..MaxProducts : delete_product("s2", id)

SpecCart == Init /\ [][NextCart]_vars

\* A shop with two products on sale, priced 100 and 250, ram logged in in s1
\* and the admin in s2, and no order placed yet.
LedgerForms ==
    <<[name |-> "E", price |-> "100", discount_price |-> ""],
      [name |-> "F", price |-> "250", discount_price |-> ""]>>

InitLedger ==
    /\ users = (1 :> [username |-> AdminUsername,
                      password |-> generate_password_hash(AdminPassword),
                      full_name |-> "Super Admin", mobile |-> NULLTEXT,
                      province |-> NULLTEXT, is_admin |-> 1])
               @@ (2 :> [username |-> "ram",
                         password |-> generate_password_hash("pw"),
                         full_name |-> "Ram", mobile |-> "9811111111",
                         province |-> "Koshi", is_admin |-> 0])
    /\ products = [i \in 1..Len(LedgerForms) |-> ProductRow(i, LedgerForms[i])]
    /\ product_seq = Len(LedgerForms)
    /\ orders = << >>
    /\ order_seq = 0
    /\ session = [s \in Sessions |->
                    [user_id |-> IF s = "s1" THEN 2 ELSE 1,
                     has_cart |-> FALSE, cart |-> << >>]]
    /\ local = [s \in Sessions |-> NoLocals]
    /\ req = Request("init", "s1", "GET", 0, NoForm, "none")
    /\ resp = Abort(0)

\* Orders placed by ram and deleted by the admin, and the dashboard that
\* counts them.  Id product_seq + 1 names no product.
NextLedger ==
    \/ \E id \in 1..(product_seq + 1) :
          Len(SessionCart("s1")) < MaxBasket /\ add_to_cart("s1", id)
    \/ order_seq < MaxLedger /\ checkout("s1", "POST", FullForm, "none")
    \/ \E s \in Sessions, id \in 1..MaxLedger : delete_order(s, id)
    \/ \E s \in Sessions : admin(s)

SpecLedger == InitLedger /\ [][NextLedger]_vars

\* The same shop before its second product was added.
InitOrders ==
    /\ users = (1 :> [username |-> AdminUsername,
                      password |-> generate_password_hash(AdminPassword),
                      full_name |-> "Super Admin", mobile |-> NULLTEXT,
                      province |-> NULLTEXT, is_admin |-> 1])
               @@ (2 :> [username |-> "ram",
                         password |-> generate_password_hash("pw"),
                         full_name |-> "Ram", mobile |-> "9811111111",
                         province |-> "Koshi", is_admin |-> 0])
    /\ products = (1 :> ProductRow(1, LedgerForms[1]))
    /\ product_seq = 1
    /\ orders = << >>
    /\ order_seq = 0
    /\ session = [s \in Sessions |->
                    [user_id |-> IF s = "s1" THEN 2 ELSE 1,
                     has_cart |-> FALSE, cart |-> << >>]]
    /\ local = [s \in Sessions |-> NoLocals]
    /\ req = Request("init", "s1", "GET", 0, NoForm, "none")
    /\ resp = Abort(0)

\* The statuses the admin's links and hand-typed URLs put on an order.
StatusInputs == {"Delivered", "Shipped"}

\* The life of orders: ram shops one product at a time, checks out and edits
\* the profile in s1; the admin edits the catalog in s2; both sessions request
\* the admin's order routes.
NextOrders ==
    \/ \E id \in 1..product_seq :
          SessionCart("s1") = << >> /\ add_to_cart("s1", id)
    \/ remove_from_cart("s1", 0)
    \/ cart("s1")
    \/ order_seq < MaxLedger /\ checkout("s1", "POST", FullForm, "none")
    \/ profile("s1", "GET", NoForm)
    \/ \E form \in {f \in ProfileForms : "password" \notin DOMAIN f} :
          profile("s1", "POST", form)
    \/ product_seq < Len(LedgerForms)
          /\ add_product("s2", LedgerForms[product_seq + 1])
    \/ delete_product("s2", 1)
    \/ \E id \in 1..MaxLedger, status \in StatusInputs :
          order_status("s2", id, status)
    \/ \E id \in 1..order_seq : order_status("s1", id, "Delivered")
    \/ \E s \in Sessions, id \in 1..order_seq : delete_order(s, id)

SpecOrders == InitOrders /\ [][NextOrders]_vars

\* Two browsers shopping side by side in that shop, each with a cart of its
\* own; a checkout runs in one step or in two, with requests of the other
\* browser in between.  Id product_seq + 1 names no product.
NextSessions ==
    \/ \E s \in Sessions, id \in 1..(product_seq + 1) :
          Len(SessionCart(s)) < MaxBasket /\ add_to_cart(s, id)
    \/ \E s \in Sessions, index \in 0..(MaxBasket - 1) :
          remove_from_cart(s, index)
    \/ \E s \in Sessions :
          order_seq < MaxOrders /\ checkout(s, "POST", FullForm, "none")
    \/ \E s \in Sessions :
          order_seq < MaxOrders /\ checkout_fetch(s, "POST", FullForm)
    \/ \E s \in Sessions : order_seq < MaxOrders /\ checkout_finish(s)

SpecSessions == InitOrders /\ [][NextSessions]_vars

\* A checkout of s1 in two steps while the admin adds and deletes products.
NextRace ==
    \/ \E id \in 1..Len(LedgerForms) :
          Len(SessionCart("s1")) < MaxRaceCart /\ add_to_cart("s1", id)
    \/ \E m \in {<<"GET", NoForm>>, <<"POST", FullForm>>} :
          checkout_fetch("s1", m[1], m[2])
    \/ order_seq < MaxOrders /\ checkout_finish("s1")
    \/ product_seq < Len(LedgerForms)
          /\ add_product("s2", LedgerForms[product_seq + 1])
    \/ \E id \in 1..Len(LedgerForms) : delete_product("s2", id)

SpecRace == InitOrders /\ [][NextRace]_vars

\* Ram in s1 and the admin in s2 both buy the product, one at a time, and
\* look at their order lists.
NextOwners ==
    \/ \E s \in Sessions : SessionCart(s) = << >> /\ add_to_cart(s, 1)
    \/ \E s \in Sessions :
          order_seq < MaxOwned /\ checkout(s, "POST", FullForm, "none")
    \/ \E s \in Sessions : profile(s, "GET", NoForm)

SpecOwners == InitOrders /\ [][NextOwners]_vars

\* The checkout submissions that end without an order, and the one that
\* commits: the page itself, a form short of a field, a commit that fails.
ClearSubmissions ==
    {<<"GET", NoForm, "none">>, <<"POST", FullForm, "none">>,
     <<"POST", Without(FullForm, "mobile"), "none">>,
     <<"POST", FullForm, "commit">>}

\* Everything that happens around a cart: ram fills it with the first product
\* and empties it, looks at it, logs out and in, edits the profile and submits checkouts in s1 while
\* the admin works on the catalog and the orders in s2.
NextClear ==
    \/ Len(SessionCart("s1")) < MaxClearCart /\ add_to_cart("s1", 1)
    \/ \E index \in 0..(MaxClearCart - 1) : remove_from_cart("s1", index)
    \/ cart("s1")
    \/ login("s1", "ram", "pw")
    \/ logout("s1")
    \/ \E form \in {f \in ProfileForms : "password" \notin DOMAIN f} :
          profile("s1", "POST", form)
    \/ \E c \in ClearSubmissions :
          order_seq < MaxOrders /\ checkout("s1", c[1], c[2], c[3])
    \/ product_seq < Len(LedgerForms)
          /\ add_product("s2", LedgerForms[product_seq + 1])
    \/ delete_product("s2", 1)
    \/ \E id \in 1..MaxOrders : order_status("s2", id, "Delivered")
    \/ \E id \in 1..MaxOrders : delete_order("s2", id)
    \/ admin("s2")

SpecClear == InitOrders /\ [][NextClear]_vars

\* The admin's routes requested from both sessions, whoever is logged in in
\* them or nobody: ram logs in and out in s1 and places an order, the admin
\* logs in and out in s2.
NextGate ==
    \/ SessionCart("s1") = << >> /\ add_to_cart("s1", 1)
    \/ order_seq < MaxOrders /\ checkout("s1", "POST", FullForm, "none")
    \/ \E c \in Credentials : login(c[1], c[2], c[3])
    \/ \E s \in Sessions : logout(s)
    \/ \E s \in Sessions :
          product_seq < Len(LedgerForms)
            /\ add_product(s, LedgerForms[product_seq + 1])
    \/ \E s \in Sessions, id \in 1..Len(LedgerForms) : delete_product(s, id)
    \/ \E s \in Sessions, id \in 1..MaxOrders :
          order_status(s, id, "Delivered")
    \/ \E s \in Sessions, id \in 1..MaxOrders : delete_order(s, id)

SpecGate == InitOrders /\ [][NextGate]_vars

\* One browser used by more than one person: entries are put in the cart of
\* s1 while ram or nobody is logged in, ram and the admin log in and out of
\* s1, with the right password or a wrong one, and whoever is logged in checks
\* out.  Id product_seq + 1 names no product.
LoginAttempts ==
    {<<"ram", "pw">>, <<"ram", "guess">>, <<AdminUsername, AdminPassword>>}

NextLogin ==
    \/ \E id \in 1..(product_seq + 1) :
          /\ Len(SessionCart("s1")) < MaxClearCart
          /\ session["s1"].user_id # 1
          /\ add_to_cart("s1", id)
    \/ \E c \in LoginAttempts : login("s1", c[1], c[2])
    \/ logout("s1")
    \/ order_seq < MaxOrders /\ checkout("s1", "POST", FullForm, "none")

SpecLogin == InitOrders /\ [][NextLogin]_vars

\* The checkout form with one of its fields left blank: the browser submits
\* the field with an empty value.
BlankForms == {[FullForm EXCEPT ![k] = ""] : k \in ShippingFields}

\* Ram checks out with forms that leave a field blank or out.  Id
\* product_seq + 1 names no product.
NextBlank ==
    \/ \E id \in 1..(product_seq + 1) :
          Len(SessionCart("s1")) < MaxClearCart /\ add_to_cart("s1", id)
    \/ \E form \in BlankForms \cup CheckoutForms :
          order_seq < MaxOrders /\ checkout("s1", "POST", form, "none")

SpecBlank == InitOrders /\ [][NextBlank]_vars

\* ------------------------------------------------------- what is claimed
\* The cart a session record holds.
CartOf(sess) == IF sess.has_cart THEN sess.cart ELSE << >>

\* The price the specification charges for a product: the discount price when
\* one is set and is neither null nor zero, the base price otherwise.
ChargedPrice(p) ==
    IF p.discount_price = NULL \/ p.discount_price = <<0>>
    THEN p.price
    ELSE p.discount_price[1]

\* The cart entries that name a product of the catalog, in cart order.
Resolved(ids, catalog) == SelectSeq(ids, LAMBDA i : i \in DOMAIN catalog)

Occurrences(ids, i) == Cardinality({k \in 1..Len(ids) : ids[k] = i})

\* Each product of the catalog charged once per occurrence in the cart.
RECURSIVE ChargedOver(_, _, _)
ChargedOver(todo, ids, catalog) ==
    IF todo = {} THEN 0
    ELSE LET i == CHOOSE j \in todo : TRUE
         IN  Occurrences(ids, i) * ChargedPrice(catalog[i])
               + ChargedOver(todo \ {i}, ids, catalog)
SkipRuleTotal(ids, catalog) == ChargedOver(DOMAIN catalog, ids, catalog)

\* The names of the first n resolved entries, comma-joined.
RECURSIVE NamesUpTo(_, _, _)
NamesUpTo(r, catalog, n) ==
    IF n = 0 THEN ""
    ELSE IF n = 1 THEN catalog[r[1]].name
    ELSE NamesUpTo(r, catalog, n - 1) \o ", " \o catalog[r[n]].name
SkipRuleSummary(ids, catalog) ==
    NamesUpTo(Resolved(ids, catalog), catalog, Len(Resolved(ids, catalog)))

NewOrders == (DOMAIN orders') \ (DOMAIN orders)
OldOrdersKept == \A o \in DOMAIN orders : o \in DOMAIN orders' /\ orders'[o] = orders[o]
Complete(form) == ShippingFields \subseteq DOMAIN form

\* C1: a POST /checkout by a logged-in user with a non-empty cart and all four
\* shipping fields (the database healthy) adds exactly one order, whose
\* total_amount is the total the request computed from the cart before the
\* insert, and leaves the session cart empty.
C1_CheckoutCommitsOneOrder ==
    [][ ( /\ req'.op = "checkout" /\ req'.method = "POST" /\ req'.fail = "none"
          /\ LoggedIn(req'.sid)
          /\ SessionCart(req'.sid) # << >>
          /\ Complete(req'.form) )
        => /\ Cardinality(NewOrders) = 1
           /\ OldOrdersKept
           /\ \A o \in NewOrders :
                 orders'[o].total_amount =
                    checkout_totals(SessionCart(req'.sid), products).total
           /\ CartOf(session'[req'.sid]) = << >>
           /\ resp' = Redirect("/profile") ]_vars

C1_Witness ==
    /\ req.op = "checkout" /\ req.method = "POST" /\ Complete(req.form)
    /\ resp = Redirect("/profile")
    /\ Cardinality(DOMAIN orders) = 2
    /\ \E o \in DOMAIN orders : orders[o].total_amount = 1400
    /\ ~session[req.sid].has_cart

\* C2: a checkout request (GET or POST) of a session whose cart is empty or
\* absent creates no order and changes no profile; when the user is logged in
\* it is answered by the redirect to the catalog home, whatever the form holds.
C2_EmptyCartCreatesNoOrder ==
    [][ (req'.op = "checkout" /\ SessionCart(req'.sid) = << >>)
        => /\ orders' = orders /\ order_seq' = order_seq
           /\ users' = users
           /\ (LoggedIn(req'.sid) => resp' = Redirect("/")) ]_vars

C2_Witness ==
    /\ req.op = "checkout" /\ req.method = "POST" /\ Complete(req.form)
    /\ LoggedIn(req.sid)
    /\ session[req.sid].has_cart /\ session[req.sid].cart = << >>
    /\ resp = Redirect("/")
    /\ orders = << >>

\* C3: a POST /checkout that leaves out any of the four shipping fields creates
\* no order and leaves the session cart and every stored profile unchanged; when
\* it reaches the field reads (logged in, cart non-empty) it is rejected (400).
C3_MissingFieldRejected ==
    [][ (req'.op = "checkout" /\ req'.method = "POST" /\ ~Complete(req'.form))
        => /\ orders' = orders /\ order_seq' = order_seq
           /\ session' = session
           /\ users' = users
           /\ (LoggedIn(req'.sid) /\ SessionCart(req'.sid) # << >>
                 => resp' = Abort(400)) ]_vars

C3_Witness ==
    /\ req.op = "checkout" /\ req.method = "POST"
    /\ "province" \notin DOMAIN req.form
    /\ resp = Abort(400)
    /\ Len(SessionCart(req.sid)) = 2
    /\ users[2].province = "Koshi"

\* C4: when the order insert, the profile update or the commit of a checkout
\* submission fails, no order is stored, no profile is updated and the session
\* cart is not cleared.
C4_FailedCommitChangesNothing ==
    [][ (req'.op = "checkout" /\ req'.fail # "none")
        => /\ orders' = orders /\ order_seq' = order_seq
           /\ users' = users
           /\ session' = session
           /\ (LoggedIn(req'.sid) /\ SessionCart(req'.sid) # << >>
                 => resp' = Abort(500)) ]_vars

C4_Witness ==
    /\ req.op = "checkout" /\ req.fail = "commit"
    /\ resp = Abort(500)
    /\ SessionCart(req.sid) # << >>
    /\ users[2].full_name = "Ram"
    /\ orders = << >>

\* C5: the order a checkout creates has total_amount equal to the sum of the
\* charged price of every cart entry whose product is in the catalog, one term
\* per occurrence, nothing for the other entries, and items_summary equal to
\* the names of exactly those entries in cart order.
C5_SkipRuleAtCheckout ==
    [][ (req'.op = "checkout" /\ NewOrders # {})
        => \A o \in NewOrders :
              /\ orders'[o].total_amount =
                    SkipRuleTotal(SessionCart(req'.sid), products)
              /\ orders'[o].items_summary =
                    SkipRuleSummary(SessionCart(req'.sid), products) ]_vars

C5_Witness ==
    /\ req.op = "checkout" /\ resp = Redirect("/profile")
    /\ DOMAIN products = {2}
    /\ \E o \in DOMAIN orders :
          /\ orders[o].items_summary = "B, B"
          /\ orders[o].total_amount = 800

\* C6: the total a cart view shows is the sum of the charged price over the
\* cart entries whose product is in the catalog at the time of that view (the
\* other entries are dropped), whatever the admin added or deleted before it.
C6_ViewTotalFollowsCatalog ==
    req.op = "cart"
      => resp.total = SkipRuleTotal(SessionCart(req.sid), products)

C6_Witness ==
    /\ req.op = "cart"
    /\ SessionCart(req.sid) = <<1, 2, 2>>
    /\ DOMAIN products = {2} /\ product_seq = 2
    /\ resp.total = 1400

\* C7: the cart view lists one line item per cart entry whose product exists,
\* in cart order, a product that is k times in the cart k times; the cart
\* [A, B, B] with A at 1000 and B at 500 discounted to 400 lists A, B, B and
\* totals 1800.
C7_ViewItemsInCartOrder ==
    req.op = "cart"
      => LET r == Resolved(SessionCart(req.sid), products)
         IN  /\ Len(resp.items) = Len(r)
             /\ \A k \in 1..Len(r) : resp.items[k] = products[r[k]]
             /\ \A i \in DOMAIN products :
                   Cardinality({k \in 1..Len(resp.items) : resp.items[k].id = i})
                     = Occurrences(SessionCart(req.sid), i)

C7_Witness ==
    /\ req.op = "cart"
    /\ SessionCart(req.sid) = <<1, 2, 2>>
    /\ DOMAIN products = {1, 2}
    /\ products[1] = [id |-> 1, name |-> "A", price |-> 1000, discount_price |-> NULL]
    /\ products[2] = [id |-> 2, name |-> "B", price |-> 500, discount_price |-> <<400>>]
    /\ [k \in 1..Len(resp.items) |-> resp.items[k].name] = <<"A", "B", "B">>
    /\ resp.total = 1800

\* C8: the price a cart view or a checkout page charges for a product is its
\* discount price when that is set and neither null nor zero, and its base
\* price otherwise (seen on carts of one entry, where the total is that price).
C8_TotalsChargeDiscountUnlessZero ==
    ( /\ req.op \in {"cart", "checkout"}
      /\ resp.status = 200
      /\ Len(SessionCart(req.sid)) = 1
      /\ SessionCart(req.sid)[1] \in DOMAIN products )
      => LET p == products[SessionCart(req.sid)[1]]
         IN  resp.total =
                IF p.discount_price # NULL /\ p.discount_price[1] # 0
                THEN p.discount_price[1]
                ELSE p.price

C8_Witness ==
    /\ req.op = "checkout" /\ resp.status = 200
    /\ Len(SessionCart(req.sid)) = 1
    /\ SessionCart(req.sid)[1] \in DOMAIN products
    /\ products[SessionCart(req.sid)[1]].discount_price = <<0>>
    /\ resp.total = 700

\* C9 as stated: effectivePrice returns the discount price whenever it is
\* present and non-null, whatever its value, and the base price otherwise.
C9_DiscountWheneverNonNull ==
    \A i \in DOMAIN products :
       EffectivePrice(products[i]) =
          IF products[i].discount_price # NULL
          THEN products[i].discount_price[1]
          ELSE products[i].price

\* C9 as amended: effectivePrice returns the discount price whenever it is
\* present, non-null and not zero, and the base price otherwise: a discount
\* price of 0 is taken for no discount.
C9_DiscountWheneverNonNullNonZero ==
    \A i \in DOMAIN products :
       LET p == products[i]
       IN  /\ (p.discount_price # NULL /\ p.discount_price[1] # 0
                 => EffectivePrice(p) = p.discount_price[1])
           /\ (p.discount_price = NULL \/ p.discount_price[1] = 0
                 => EffectivePrice(p) = p.price)

C9_Witness ==
    /\ req.op = "add_product"
    /\ \E i, j \in DOMAIN products :
          /\ products[i].discount_price = <<0>>
          /\ EffectivePrice(products[i]) = 700
          /\ products[j].discount_price = <<400>>
          /\ EffectivePrice(products[j]) = 400

RECURSIVE StoredAmounts(_)
StoredAmounts(n) ==
    IF n = 0 THEN 0
    ELSE (IF n \in DOMAIN orders THEN orders[n].total_amount ELSE 0)
         + StoredAmounts(n - 1)

\* C11: after any sequence of order creations and admin deletions, the admin
\* dashboard reports as count the number of orders stored and as earnings the
\* sum of their total_amount; the earnings are the number 0, never null, when
\* no order is stored; over two orders of 100 and 250 it reports 2 and 350.
C11_AggregateCountsAndSums ==
    (req.op = "admin" /\ resp.location = "admin") =>
        /\ resp.count = Cardinality({i \in 1..order_seq : i \in DOMAIN orders})
        /\ resp.total = StoredAmounts(order_seq)
        /\ (DOMAIN orders = {} => resp.total = 0 /\ resp.count = 0)
        /\ ({orders[i].total_amount : i \in DOMAIN orders} = {100, 250}
              /\ Cardinality(DOMAIN orders) = 2
             => resp.count = 2 /\ resp.total = 350)
C11_Witness ==
    /\ req.op = "admin" /\ resp.location = "admin"
    /\ Cardinality(DOMAIN orders) = 2
    /\ {orders[i].total_amount : i \in DOMAIN orders} = {100, 250}
    /\ resp.count = 2 /\ resp.total = 350

\* C12: the status of an order is one of two values: in every reachable state
\* each stored order's status is Pending or Delivered (a request for any other
\* status being refused and leaving the order as it was).
C12_StatusPendingOrDelivered ==
    \A i \in DOMAIN orders : orders[i].status \in {"Pending", "Delivered"}

\* The fields of an order that record the purchase.
Snapshot(o) ==
    [user_id |-> o.user_id, full_name |-> o.full_name, mobile |-> o.mobile,
     address |-> o.address, total_amount |-> o.total_amount,
     items_summary |-> o.items_summary]

\* C13: an order is a frozen snapshot: whatever is done after it was created
\* (product added or deleted, profile edited, later checkouts, status changes),
\* its total, items summary, owner and shipping name, mobile and address stay
\* as stored; only its status changes, and only by the admin's status request
\* for that order, and it goes away only by the admin's delete request for it.
C13_OrderIsFrozenSnapshot ==
    [][\A i \in DOMAIN orders :
          /\ i \in DOMAIN orders' => Snapshot(orders'[i]) = Snapshot(orders[i])
          /\ (i \in DOMAIN orders' /\ orders'[i].status # orders[i].status)
                => /\ req'.op = "order_status" /\ req'.arg = i
                   /\ IsAdmin(req'.sid)
          /\ i \notin DOMAIN orders'
                => /\ req'.op = "delete_order" /\ req'.arg = i
                   /\ IsAdmin(req'.sid)]_vars
\* An order for product E outlives the product, ram's change of mobile number,
\* a later order and a change of its own status.
C13_Witness ==
    \E i \in DOMAIN orders :
       /\ orders[i].items_summary = "E" /\ orders[i].total_amount = 100
       /\ 1 \notin DOMAIN products
       /\ orders[i].mobile = "9800000000" /\ users[2].mobile = "9822222222"
       /\ orders[i].status = "Delivered"
       /\ \E j \in DOMAIN orders : j > i

\* C14: carts are isolated per session: an add, a removal or a checkout in one
\* session leaves the cart of every other session as it was, however the
\* requests of the sessions interleave.
C14_CartsIsolatedPerSession ==
    [][\A t \in Sessions :
          (req'.op \in {"add_to_cart", "remove_from_cart", "checkout",
                        "checkout_fetch", "checkout_finish"}
             /\ t # req'.sid)
          => /\ session'[t].has_cart = session[t].has_cart
             /\ session'[t].cart = session[t].cart]_vars
\* s1 has just checked out, which emptied its cart, while s2 still holds the
\* cart it filled.
C14_Witness ==
    /\ req.op = "checkout" /\ req.sid = "s1" /\ resp.location = "/profile"
    /\ ~session["s1"].has_cart
    /\ session["s2"].has_cart /\ session["s2"].cart # << >>

\* C15: however a checkout interleaves with the admin's catalog edits, the
\* order it stores agrees with itself: the rows the request fetched are those
\* that one catalog state held for its cart, and the order's total is the sum
\* of the charged prices, and its items summary the names, of exactly the cart
\* entries found among those rows.
C15_TotalAgreesWithItems ==
    [][/\ (req'.op = "checkout_fetch" /\ local'["s1"].pc = "fetched")
            => local'["s1"].pmap =
                  [i \in (DOMAIN products) \cap Range(local'["s1"].ids)
                     |-> products[i]]
       /\ \A i \in (DOMAIN orders') \ (DOMAIN orders) :
            /\ orders'[i].total_amount =
                  SkipRuleTotal(local[req'.sid].ids, local[req'.sid].pmap)
            /\ orders'[i].items_summary =
                  SkipRuleSummary(local[req'.sid].ids, local[req'.sid].pmap)]_vars
\* An order for product E was stored by a checkout that finished after the
\* admin had deleted E.
C15_Witness ==
    /\ req.op = "checkout_finish" /\ resp.location = "/profile"
    /\ 1 \notin DOMAIN products
    /\ \E i \in DOMAIN orders :
          orders[i].items_summary = "E" /\ orders[i].total_amount = 100

\* C16: add appends unconditionally: whether or not the id names a product and
\* whether or not it is already in the cart, the cart after the add is the
\* cart before it followed by the id; a session without a cart gets one that
\* holds just the id.
C16_AddAppends ==
    [][req'.op = "add_to_cart" =>
          LET before == CartOf(session[req'.sid])
              after == CartOf(session'[req'.sid])
          IN  /\ session'[req'.sid].has_cart
              /\ Len(after) = Len(before) + 1
              /\ after[Len(after)] = req'.arg
              /\ \A k \in 1..Len(before) : after[k] = before[k]
              /\ (~session[req'.sid].has_cart => after = <<req'.arg>>)]_vars
\* An id that names no product was added to a cart that already held it.
C16_Witness ==
    /\ req.op = "add_to_cart"
    /\ LET c == CartOf(session[req.sid])
       IN  /\ Len(c) >= 2
           /\ c[Len(c)] = req.arg
           /\ \E k \in 1..(Len(c) - 1) : c[k] = req.arg
           /\ req.arg \notin DOMAIN products

\* C17: a removal at an index within the cart removes exactly the entry at
\* that position: the entries before it and after it keep their values and
\* their order, an entry equal to the removed one included.
C17_RemoveAtRemovesThatEntry ==
    [][(req'.op = "remove_from_cart" /\ 0 <= req'.arg
          /\ req'.arg < Len(CartOf(session[req'.sid])))
       => LET before == CartOf(session[req'.sid])
              after == CartOf(session'[req'.sid])
          IN  /\ Len(after) = Len(before) - 1
              /\ \A k \in 1..Len(after) :
                    after[k] = IF k <= req'.arg THEN before[k] ELSE before[k + 1]]_vars
\* The middle entry of a cart of three was removed (a cart of two is left
\* after a request for index 1 only if the index was within the cart) and the
\* two equal entries around it stayed.
C17_Witness ==
    /\ req.op = "remove_from_cart" /\ req.arg = 1
    /\ CartOf(session[req.sid]) = <<1, 1>>

\* The requests a customer makes: cart routes, checkout and profile.
CustomerOps ==
    {"add_to_cart", "remove_from_cart", "cart", "checkout", "profile"}

\* C18: every order is created with status Pending and stays Pending until the
\* admin's status request for that very order changes it; no customer request
\* (add, remove, cart view, checkout, profile edit) changes the status of any
\* order.
C18_PendingUntilAdminSetsStatus ==
    [][/\ \A i \in (DOMAIN orders') \ (DOMAIN orders) :
             orders'[i].status = "Pending"
       /\ \A i \in (DOMAIN orders) \cap (DOMAIN orders') :
             /\ (orders[i].status = "Pending" /\ orders'[i].status # "Pending")
                   => /\ req'.op = "order_status" /\ req'.arg = i
                      /\ IsAdmin(req'.sid)
             /\ req'.op \in CustomerOps => orders'[i].status = orders[i].status]_vars
\* Ram has just placed a second order, which is Pending, and the earlier one
\* is still as the admin marked it.
C18_Witness ==
    /\ req.op = "checkout" /\ resp.location = "/profile"
    /\ order_seq \in DOMAIN orders /\ orders[order_seq].status = "Pending"
    /\ \E i \in DOMAIN orders : i < order_seq /\ orders[i].status = "Delivered"

\* The profile fields of user u hold what the form submitted.
ProfileSet(usr, u, form) ==
    /\ usr[u].full_name = form.full_name
    /\ usr[u].mobile = form.mobile
    /\ usr[u].province = form.province

\* C19: a successful checkout sets the stored full name, mobile and province of
\* the user of the session to the submitted values, in the same committed unit
\* as the order (the order is stored if and only if the profile is written),
\* and changes nothing else in users: no other user's row, no other field.
C19_CheckoutUpdatesOwnProfile ==
    [][req'.op = "checkout" =>
          LET uid == session[req'.sid].user_id
          IN  /\ (resp'.status = 302 /\ resp'.location = "/profile")
                    => /\ ProfileSet(users', uid, req'.form)
                       /\ NewOrders # {}
              /\ NewOrders # {} => ProfileSet(users', uid, req'.form)
              /\ users' # users => NewOrders # {}
              /\ DOMAIN users' = DOMAIN users
              /\ \A u \in DOMAIN users :
                    /\ u # uid => users'[u] = users[u]
                    /\ users'[u].username = users[u].username
                    /\ users'[u].password = users[u].password
                    /\ users'[u].is_admin = users[u].is_admin]_vars
\* Ram's checkout went through: ram's profile holds the submitted values and
\* the admin's row is as it was.
C19_Witness ==
    /\ req.op = "checkout" /\ resp.location = "/profile"
    /\ order_seq \in DOMAIN orders
    /\ ProfileSet(users, 2, FullForm)
    /\ users[1].full_name = "Super Admin" /\ users[1].mobile = NULLTEXT

\* C20: the order a checkout creates is owned by the user of the session that
\* checked out, so the order list of a user's profile page holds exactly the
\* stored orders of that user, newest first, and no order of anyone else.
C20_OrderOwnedBySessionUser ==
    [][/\ \A i \in (DOMAIN orders') \ (DOMAIN orders) :
             orders'[i].user_id = session[req'.sid].user_id
       /\ (req'.op = "profile" /\ resp'.location = "profile")
             => LET uid == session[req'.sid].user_id
                    list == resp'.items
                IN  /\ {list[k].id : k \in 1..Len(list)}
                          = {i \in DOMAIN orders : orders[i].user_id = uid}
                    /\ \A k \in 1..Len(list) : list[k] = orders[list[k].id]
                    /\ \A k \in 1..(Len(list) - 1) : list[k].id > list[k + 1].id]_vars
\* Ram's order list shows ram's two orders, the later one first, and not the
\* order the admin placed.
C20_Witness ==
    /\ req.op = "profile" /\ req.sid = "s1" /\ resp.location = "profile"
    /\ Len(resp.items) = 2
    /\ resp.items[1].id > resp.items[2].id
    /\ \E i \in DOMAIN orders : orders[i].user_id = 1

\* C21: a cart is cleared only by a successful checkout: a non-empty cart
\* becomes empty in one step only when a checkout of its session commits an
\* order in that step or when a removal takes its single remaining entry; no
\* other request (cart view, login, logout, profile edit, a checkout that is
\* rejected or cut short, any admin request) takes an entry out of a cart.
C21_CartClearedOnlyByCheckout ==
    [][\A s \in Sessions :
          LET before == CartOf(session[s])
              after == CartOf(session'[s])
              committed == req'.op = "checkout" /\ req'.sid = s /\ NewOrders # {}
              removed == req'.op = "remove_from_cart" /\ req'.sid = s
          IN  /\ (before # << >> /\ after = << >>)
                    => committed \/ (removed /\ Len(before) = 1)
              /\ ~(committed \/ removed)
                    => /\ Len(after) >= Len(before)
                       /\ \A k \in 1..Len(before) : after[k] = before[k]
              /\ committed => after = << >>]_vars
\* Ram's cart of two entries was emptied by the checkout that stored it as an
\* order.
C21_Witness ==
    /\ req.op = "checkout" /\ req.sid = "s1" /\ resp.location = "/profile"
    /\ CartOf(session["s1"]) = << >>
    /\ \E i \in DOMAIN orders : orders[i].items_summary = "E, E"

\* C22: the admin's deletion of a product is unconditional and changes only
\* the catalog: the product is gone whether or not a cart or an order refers
\* to it, the other products stay, and every session cart (entries holding the
\* deleted id included), every stored order and every user row is as it was.
C22_DeleteProductChangesOnlyCatalog ==
    [][(req'.op = "delete_product" /\ IsAdmin(req'.sid))
       => /\ resp' = Redirect("/admin")
          /\ DOMAIN products' = (DOMAIN products) \ {req'.arg}
          /\ \A i \in DOMAIN products' : products'[i] = products[i]
          /\ session' = session
          /\ orders' = orders /\ order_seq' = order_seq
          /\ users' = users]_vars
\* Product E was deleted while ram's cart held it and an order named it; the
\* cart and the order are still there.
C22_Witness ==
    /\ req.op = "delete_product" /\ req.arg = 1 /\ resp.location = "/admin"
    /\ 1 \notin DOMAIN products
    /\ CartOf(session["s1"]) = <<1>>
    /\ \E i \in DOMAIN orders : orders[i].items_summary = "E"

\* C23: the admin's deletion of an order removes exactly that order and
\* nothing else: the other orders, the products, the user rows and the session
\* carts are as they were, and an id that matches no order changes nothing.
C23_DeleteOrderRemovesOnlyThatOrder ==
    [][(req'.op = "delete_order" /\ IsAdmin(req'.sid))
       => /\ DOMAIN orders' = (DOMAIN orders) \ {req'.arg}
          /\ \A i \in DOMAIN orders' : orders'[i] = orders[i]
          /\ (req'.arg \notin DOMAIN orders => orders' = orders)
          /\ order_seq' = order_seq
          /\ products' = products /\ product_seq' = product_seq
          /\ users' = users
          /\ session' = session]_vars
\* The second of two orders was deleted; the first is still stored, and so is
\* the cart ram has filled since.
C23_Witness ==
    /\ req.op = "delete_order" /\ req.arg = 2 /\ resp.location = "/admin"
    /\ DOMAIN orders = {1} /\ order_seq = 2
    /\ CartOf(session["s1"]) # << >>

\* The positions, counted from 0, of the cart entries whose product exists, in
\* cart order.
ResolvedPositions(ids, catalog) ==
    LET P == {p \in 0..(Len(ids) - 1) : ids[p + 1] \in DOMAIN catalog}
        nth(k) == CHOOSE p \in P : Cardinality({q \in P : q < p}) = k - 1
    IN  [k \in 1..Cardinality(P) |-> nth(k)]

\* C24: the removal link of a displayed line item removes that same item: the
\* index the cart page attaches to its k-th line item is the position in the
\* session cart of the entry that line item was resolved from, also when the
\* cart holds entries of deleted products, which the page skips.
C24_RemoveLinkNamesItsEntry ==
    req.op = "cart"
      => LET pos == ResolvedPositions(SessionCart(req.sid), products)
         IN  \A k \in 1..Len(resp.items) :
                /\ k <= Len(pos)
                /\ loop_index0(k) = pos[k]

\* C25: a checkout submission with all four shipping fields and a non-empty
\* cart none of whose entries names an existing product still commits: it
\* stores one order with total_amount 0 and an empty items_summary, writes the
\* profile and clears the cart.
C25_GhostCartStillCommits ==
    [][(/\ req'.op = "checkout" /\ req'.method = "POST" /\ req'.fail = "none"
        /\ LoggedIn(req'.sid)
        /\ Complete(req'.form)
        /\ SessionCart(req'.sid) # << >>
        /\ Range(SessionCart(req'.sid)) \cap DOMAIN products = {})
       => /\ NewOrders = {order_seq + 1}
          /\ DOMAIN orders' = (DOMAIN orders) \cup {order_seq + 1}
          /\ orders'[order_seq + 1].total_amount = 0
          /\ orders'[order_seq + 1].items_summary = ""
          /\ orders'[order_seq + 1].user_id = session[req'.sid].user_id
          /\ ProfileSet(users', session[req'.sid].user_id, req'.form)
          /\ CartOf(session'[req'.sid]) = << >>
          /\ resp' = Redirect("/profile")]_vars
\* Sita's order for nothing: the cart named only products that are not in the
\* catalog, which does hold a product.
C25_Witness ==
    /\ req.op = "checkout" /\ resp = Redirect("/profile")
    /\ products # << >>
    /\ order_seq \in DOMAIN orders
    /\ orders[order_seq].full_name = "Sita"
    /\ orders[order_seq].total_amount = 0
    /\ orders[order_seq].items_summary = ""
    /\ CartOf(session[req.sid]) = << >>

\* C26: checkout tests only that the four shipping fields are supplied, not
\* that they hold anything: a submission that supplies full name, mobile,
\* province or address as an empty value counts as complete and commits an
\* order, which stores the empty value.
C26_BlankFieldsCommit ==
    [][(/\ req'.op = "checkout" /\ req'.method = "POST" /\ req'.fail = "none"
        /\ LoggedIn(req'.sid)
        /\ SessionCart(req'.sid) # << >>
        /\ ShippingFields \subseteq DOMAIN req'.form)
       => /\ NewOrders = {order_seq + 1}
          /\ orders'[order_seq + 1].full_name = req'.form.full_name
          /\ orders'[order_seq + 1].mobile = req'.form.mobile
          /\ orders'[order_seq + 1].address
                = req'.form.address \o ", " \o req'.form.province
          /\ resp' = Redirect("/profile")]_vars
\* An order with no name on it was stored.
C26_Witness ==
    /\ req.op = "checkout" /\ resp = Redirect("/profile")
    /\ req.form.full_name = ""
    /\ order_seq \in DOMAIN orders
    /\ orders[order_seq].full_name = ""
    /\ users[2].full_name = ""

\* C27: a checkout is not repeated by submitting it again: the submission that
\* follows a committed checkout of the same session, with no add in between,
\* finds the cart empty, is sent to the home page and stores no further order;
\* the commit has consumed the cart it was computed from.
C27_ResubmitCreatesNoOrder ==
    [][/\ (req'.op = "checkout" /\ NewOrders # {})
            => CartOf(session'[req'.sid]) = << >>
       /\ (/\ req.op = "checkout" /\ resp = Redirect("/profile")
           /\ req'.op = "checkout" /\ req'.sid = req.sid)
            => /\ orders' = orders /\ order_seq' = order_seq
               /\ users' = users
               /\ resp' = Redirect("/")]_vars
\* Ram's second submission was sent to the home page; the one order of the
\* shop is the one ram's first submission stored.
C27_Witness ==
    /\ req.op = "checkout" /\ req.sid = "s1" /\ req.method = "POST"
    /\ resp = Redirect("/")
    /\ ~session["s2"].has_cart
    /\ order_seq = 1 /\ DOMAIN orders = {1} /\ orders[1].user_id = 2

\* C28: checkout requires a logged-in session: a GET or POST to /checkout from
\* a session without a user id is redirected to the login page, stores no
\* order, changes no user row and leaves the session's cart as it is, whatever
\* the cart holds.
C28_CheckoutRequiresLogin ==
    [][(req'.op = "checkout" /\ session[req'.sid].user_id = NoUser)
       => /\ resp' = Redirect("/login")
          /\ orders' = orders /\ order_seq' = order_seq
          /\ users' = users
          /\ session' = session]_vars
\* A complete submission for a cart with entries was turned away because
\* nobody was logged in.
C28_Witness ==
    /\ req.op = "checkout" /\ req.method = "POST" /\ req.form = FullForm
    /\ resp = Redirect("/login")
    /\ session[req.sid].user_id = NoUser
    /\ Len(CartOf(session[req.sid])) >= 2

\* The requests that change the catalog or the orders on the admin's behalf.
AdminMutations ==
    {"add_product", "delete_product", "order_status", "delete_order"}

\* The session belongs to nobody, or to a user who is not an admin.
NotAnAdmin(s) ==
    \/ session[s].user_id = NoUser
    \/ users[session[s].user_id].is_admin # 1

\* C29: the catalog and the orders are changed by admins only: a request to
\* add or delete a product, to set an order's status or to delete an order,
\* from a session that is not logged in or whose user is not an admin, leaves
\* the products and the orders tables as they were.
C29_AdminOnlyMutations ==
    [][(req'.op \in AdminMutations /\ NotAnAdmin(req'.sid))
       => /\ products' = products /\ product_seq' = product_seq
          /\ orders' = orders /\ order_seq' = order_seq
          /\ resp'.status = 302 /\ resp'.location # "/admin"]_vars
\* Ram, logged in, asked for an order to be deleted and was sent to the home
\* page; the order is still stored.
C29_Witness ==
    /\ req.op = "delete_order" /\ req.sid = "s1"
    /\ session["s1"].user_id = 2
    /\ resp = Redirect("/")
    /\ req.arg \in DOMAIN orders

\* C30: the cart belongs to the session, not to the user: login and logout
\* leave the cart of the session as it is, so what was added before a login or
\* under an earlier user is still in the cart, and the order of whoever checks
\* out next in the session is computed from all of it and owned by that user.
C30_CartBelongsToSession ==
    [][/\ req'.op \in {"login", "logout"}
            => /\ session'[req'.sid].has_cart = session[req'.sid].has_cart
               /\ session'[req'.sid].cart = session[req'.sid].cart
       /\ (req'.op = "checkout" /\ NewOrders # {})
            => \A o \in NewOrders :
                  /\ orders'[o].user_id = session[req'.sid].user_id
                  /\ orders'[o].items_summary =
                        SkipRuleSummary(CartOf(session[req'.sid]), products)
                  /\ orders'[o].total_amount =
                        SkipRuleTotal(CartOf(session[req'.sid]), products)]_vars
\* The admin, who put nothing in the cart, checked out in s1 and owns an
\* order for the two entries that were in the cart before the admin logged in.
C30_Witness ==
    /\ req.op = "checkout" /\ req.sid = "s1" /\ resp = Redirect("/profile")
    /\ session["s1"].user_id = 1
    /\ order_seq \in DOMAIN orders
    /\ orders[order_seq].user_id = 1
    /\ orders[order_seq].items_summary = "E, E"
    /\ orders[order_seq].total_amount = 200
====
